---- MODULE Spec2Model ----
(***************************************************************************)
(* A model of the Nutrient DWS Python client: the transport client's retry *)
(* and response classification, the file input normalizer, config, and the direct  *)
(* operations that build parts, post them to /build and route the result.  *)
(*                                                                         *)
(* One public call runs at a time (the library is synchronous):            *)
(*   pc = "idle"     no call in progress                                   *)
(*   pc = "posting"  the call is inside session.post, between attempts     *)
(*   pc = "posted"   HTTPClient.post has returned or raised                *)
(*   pc = "done"     the call has returned or raised to its caller         *)
(***************************************************************************)
EXTENDS Integers, Sequences, FiniteSets, TLC

VARIABLES
    api_key,       \* HTTPClient._api_key of the client ("None" when absent)
    pc,            \* position of the call in progress
    call,          \* the operation called and its arguments
    request,       \* arguments of the last HTTPClient.post call
    posts,         \* HTTPClient.post calls made by the operation
    attempts,      \* network attempts made by the current post
    retries,       \* urllib3 Retry.total still available to the current post
    responses,     \* what the server answered to each attempt, in order
    response,      \* the last answer, with its body
    post_result,   \* what HTTPClient.post returned or raised
    result,        \* what the operation returned or raised
    written,       \* output files written by the operation, in order
    open_handles,  \* file handles opened by prepare_file_for_upload, not closed
    split_i,       \* split_pdf: index of the page range being processed
    results,       \* split_pdf: the results list
    prepared,      \* what a direct call of a file normalizer returned or raised
    fs_ops,        \* filesystem calls made by that normalizer call, in order
    stream_pos,    \* read position of the stream given to it: "start" or "end"
    builder,       \* the BuildAPIWrapper instance the caller holds
    step_calls,    \* add_step calls made on that instance
    option_calls,  \* the options of the set_output_options calls made on it
    environ,       \* os.environ["NUTRIENT_API_KEY"] ("None" when unset)
    session_key,   \* the X-Api-Key header of the client's session
    constructed    \* the api_key argument and the environment at construction

vars == <<api_key, pc, call, request, posts, attempts, retries, responses,
          response, post_result, result, written, open_handles, split_i, results,
          prepared, fs_ops, stream_pos, builder, step_calls,
          option_calls, environ, session_key, constructed>>

transport == <<attempts, retries, responses, response>>

normalizer == <<prepared, fs_ops, stream_pos>>

wrapper == <<builder, step_calls, option_calls>>

config == <<environ, session_key, constructed>>

None == "None"

(***************************************************************************)
(* Program constants.                                                      *)
(***************************************************************************)

\* Retry(total=3, ...)
RetryTotal == 3

\* a forcelist that leaves out 502
status_forcelist_without_502 == {429, 500, 503, 504}

\* Retry(status_forcelist=[429, 500, 502, 503, 504])
status_forcelist == {429, 500, 502, 503, 504}

\* Retry(allowed_methods=["GET", "POST"])
allowed_methods == {"GET", "POST"}

(***************************************************************************)
(* Server answers.  An attempt ends in an HTTP response or in a network    *)
(* failure (a timeout, or any other connection failure).                   *)
(***************************************************************************)

BodyA == "%PDF-A"
BodyB == "%PDF-B"
BodyE == "{message: m, errors: {field: [e]}}"

Bodies == {BodyA, BodyB, BodyE}

St(s, b) == [kind |-> "status", status |-> s, body |-> b]

Timeout == [kind |-> "timeout", status |-> 0, body |-> ""]

ConnectionFailure == [kind |-> "connection", status |-> 0, body |-> ""]

NoOutcome == [kind |-> "none", status |-> 0, body |-> ""]

Statuses == {200, 201, 400, 401, 403, 404, 422, 429, 500, 502, 503, 504}

\* every answer the transport can meet
PostOutcomes ==
    {St(s, b) : s \in Statuses, b \in Bodies} \cup {Timeout, ConnectionFailure}

\* the answers the operations are exercised with
OpOutcomes == {St(200, BodyA), St(200, BodyB), St(422, BodyE), Timeout}

Obs(o) == [kind |-> o.kind, status |-> o.status]

(***************************************************************************)
(* Results of calls.                                                       *)
(***************************************************************************)

NoResult == [kind |-> "none", exc |-> None, status |-> 0, value |-> None, errors |-> None]

Return(v) == [kind |-> "return", exc |-> None, status |-> 0, value |-> v, errors |-> None]

Raise(e) == [kind |-> "raise", exc |-> e, status |-> 0, value |-> None, errors |-> None]

RaiseStatus(e, s, b, errs) ==
    [kind |-> "raise", exc |-> e, status |-> s, value |-> b, errors |-> errs]

(***************************************************************************)
(* Transport client: retry policy.                                         *)
(***************************************************************************)

\* a policy that retries every error status
IsRetryAnyError(method, o) ==
    /\ method \in allowed_methods
    /\ \/ o.kind = "status" /\ o.status >= 400
       \/ o.kind \in {"timeout", "connection"}

\* Retry.is_retry / Retry._is_method_retryable under the session's policy:
\* a forcelist status or a transient network failure of an allowed method
IsRetry(method, o) ==
    /\ method \in allowed_methods
    /\ \/ o.kind = "status" /\ o.status \in status_forcelist
       \/ o.kind \in {"timeout", "connection"}

\* Retry.increment: one retry is consumed
Increment(total) == total - 1

\* an exhaustion test that is off by one
IsExhaustedLate(total) == total < -1

\* Retry.is_exhausted
IsExhausted(total) == total < 0

(***************************************************************************)
(* Transport client: credential check and response classification.         *)
(***************************************************************************)

\* a post that leaves the credential to the server
KeyNeverMissing(key) == FALSE

\* post() refuses to run without a credential
KeyMissing(key) == key = None

\* response.json().get("errors"): the field-level error map of a JSON body
ErrorsOf(body) == IF body = BodyE THEN "{field: [e]}" ELSE "{}"

\* a classification that reports every error status as APIError
HandleResponseFlat(o) ==
    CASE o.kind = "timeout" -> Raise("TimeoutError")
      [] o.kind = "connection" -> Raise("APIError")
      [] o.kind = "status" /\ o.status >= 400 ->
            RaiseStatus("APIError", o.status, o.body, None)
      [] OTHER -> Return(o.body)

\* the outcome of post for the final answer o of the session
HandleResponse(o) ==
    CASE o.kind = "timeout" -> Raise("TimeoutError")
      [] o.kind = "connection" -> Raise("APIError")
      [] o.kind = "status" /\ o.status \in {401, 403} ->
            RaiseStatus("AuthenticationError", o.status, o.body, None)
      [] o.kind = "status" /\ o.status = 422 ->
            RaiseStatus("ValidationError", o.status, o.body, ErrorsOf(o.body))
      [] o.kind = "status" /\ o.status >= 400 /\ o.status \notin {401, 403, 422} ->
            RaiseStatus("APIError", o.status, o.body, None)
      [] OTHER -> Return(o.body)

(***************************************************************************)
(* File input normalizer.                                                  *)
(***************************************************************************)

\* 10 * 1024 * 1024, the size above which a path is streamed
StreamThreshold == 10 * 1024 * 1024

PathInput(p) == [kind |-> "path", ref |-> p]

BytesInput == [kind |-> "bytes", ref |-> "raw-bytes"]

\* io.BytesIO(b"..."): a binary stream without a name
StreamInput == [kind |-> "stream", ref |-> "stream-content"]

\* io.StringIO("..."): a text stream without a name
TextStreamInput == [kind |-> "stream", ref |-> "text-content"]

\* open("/tmp/named.txt", "rb") and open("/tmp/named.txt", "r")
NamedStreamInput == [kind |-> "stream", ref |-> "named-content"]

NamedTextStreamInput == [kind |-> "stream", ref |-> "named-text-content"]

\* what read() returns on a stream: str for a text stream, bytes otherwise
StreamIsText(ref) == ref \in {"text-content", "named-text-content"}

\* getattr(file_input, "name", "document")
StreamName(ref) ==
    IF ref \in {"named-content", "named-text-content"} THEN "/tmp/named.txt" ELSE "document"

\* os.path.basename(filename)
Basename(filename) == IF filename = "/tmp/named.txt" THEN "named.txt" ELSE filename

\* content.encode()
Encode(content) == [content EXCEPT !.kind = "bytes"]

\* an input that is no path, bytes or readable object (such as 123)
OtherInput == [kind |-> "other", ref |-> "123"]

\* the files on disk: Path.exists() and Path.stat().st_size
Exists(path) ==
    path \in {"empty.pdf", "small.pdf", "below.pdf", "exact.pdf", "large.pdf", "huge.pdf"}

FileSize(path) ==
    CASE path = "empty.pdf" -> 0
      [] path = "below.pdf" -> StreamThreshold - 1
      [] path = "exact.pdf" -> StreamThreshold
      [] path = "large.pdf" -> StreamThreshold + 1
      [] path = "huge.pdf" -> 11 * 1024 * 1024
      [] OTHER -> 1024

FileContent(path) ==
    CASE path = "empty.pdf" -> ""
      [] path = "below.pdf" -> "below-content"
      [] path = "exact.pdf" -> "exact-content"
      [] path = "large.pdf" -> "large-content"
      [] path = "huge.pdf" -> "huge-content"
      [] OTHER -> "small-content"

FileInputs ==
    {PathInput("small.pdf"), PathInput("large.pdf"), PathInput("missing.pdf"),
     BytesInput, StreamInput, OtherInput}

\* every input the normalizers are called with
NormalizerInputs ==
    FileInputs \cup {PathInput("empty.pdf"), PathInput("below.pdf"), PathInput("exact.pdf"),
                     PathInput("huge.pdf"), TextStreamInput, NamedStreamInput,
                     NamedTextStreamInput}

\* fs: the filesystem calls made, in order; reads: the stream was read
PrepFailed(e) ==
    [exc |-> e, opens |-> 0, field |-> None, filename |-> None,
     content |-> [kind |-> "none", ref |-> None], fs |-> <<>>, reads |-> FALSE]

Prepared(field, filename, kind, ref, opens) ==
    [exc |-> None, opens |-> opens, field |-> field, filename |-> filename,
     content |-> [kind |-> kind, ref |-> ref], fs |-> <<>>, reads |-> FALSE]

\* no normalizer has been called
NoPrepared == PrepFailed(None)

\* prepare_file_input(file_input): the bytes and the filename, or the
\* exception raised instead
prepare_file_input(file_input) ==
    IF file_input.kind = "path"
      THEN IF ~Exists(file_input.ref)
             THEN [PrepFailed("FileNotFoundError") EXCEPT !.fs = <<"exists">>]
             ELSE [Prepared(None, file_input.ref, "bytes", FileContent(file_input.ref), 0)
                     EXCEPT !.fs = <<"exists", "read_bytes">>]
      ELSE IF file_input.kind = "bytes"
             THEN Prepared(None, "document", "bytes", file_input.ref, 0)
             ELSE IF file_input.kind = "stream"
                    THEN LET content == [kind |-> IF StreamIsText(file_input.ref)
                                                    THEN "str" ELSE "bytes",
                                         ref |-> file_input.ref]
                             bytes == IF content.kind = "str" THEN Encode(content)
                                                              ELSE content
                         IN  [Prepared(None, Basename(StreamName(file_input.ref)),
                                       bytes.kind, bytes.ref, 0)
                                EXCEPT !.reads = TRUE]
                    ELSE PrepFailed("ValueError")

\* a threshold test that also streams a file of exactly the threshold size
IsAboveThresholdInclusive(file_size) == file_size >= StreamThreshold

\* file_size > 10 * 1024 * 1024
IsAboveThreshold(file_size) == file_size > StreamThreshold

\* prepare_file_for_upload(file_input, field_name): the upload tuple, the
\* exception raised instead, and whether a file handle was opened
prepare_file_for_upload(file_input, field_name) ==
    IF file_input.kind = "path"
      THEN IF ~Exists(file_input.ref)
             THEN [PrepFailed("FileNotFoundError") EXCEPT !.fs = <<"exists">>]
             ELSE IF IsAboveThreshold(FileSize(file_input.ref))
                    THEN [Prepared(field_name, file_input.ref, "handle", file_input.ref, 1)
                            EXCEPT !.fs = <<"exists", "stat", "open">>]
                    ELSE [Prepared(field_name, file_input.ref, "bytes",
                                   FileContent(file_input.ref), 0)
                            EXCEPT !.fs = <<"exists", "stat", "read_bytes">>]
      ELSE IF file_input.kind = "bytes"
             THEN Prepared(field_name, "document", "bytes", file_input.ref, 0)
             ELSE IF file_input.kind = "stream"
                    THEN Prepared(field_name, StreamName(file_input.ref), "stream",
                                  file_input.ref, 0)
                    ELSE PrepFailed("ValueError")

FileField(prep) ==
    [field |-> prep.field, filename |-> prep.filename, content |-> prep.content]

\* Python truthiness of an optional string argument
Truthy(x) == x \notin {None, ""}

(***************************************************************************)
(* Parts of an instruction document.                                       *)
(***************************************************************************)

\* {"file": f}
FilePart(f) == [kind |-> "file", file |-> f, start |-> 0, end |-> 0, pageCount |-> 0]

\* {"file": f, "pages": {"start": s, "end": e}}
RangePart(f, s, e) ==
    [kind |-> "range", file |-> f, start |-> s, end |-> e, pageCount |-> 0]

\* {"file": f, "pages": {"start": s}}
FromPart(f, s) == [kind |-> "from", file |-> f, start |-> s, end |-> 0, pageCount |-> 0]

\* {"page": "new", "pageCount": n, "layout": ...}
NewPagePart(n) == [kind |-> "new", file |-> None, start |-> 0, end |-> 0, pageCount |-> n]

Min(S) == CHOOSE x \in S : \A y \in S : x <= y

RECURSIVE SortSet(_)
\* sorted(S) of a set of integers
SortSet(S) == IF S = {} THEN <<>> ELSE <<Min(S)>> \o SortSet(S \ {Min(S)})

Range(q) == {q[i] : i \in 1..Len(q)}

\* a test that holds only when every index is negative
AllNegative(q) == \A i \in 1..Len(q) : q[i] < 0

AnyNegative(q) == \E i \in 1..Len(q) : q[i] < 0

(***************************************************************************)
(* Calls.                                                                  *)
(***************************************************************************)

NoInput == [kind |-> "none", ref |-> None]

NoList == [given |-> FALSE, items |-> <<>>]

Given(q) == [given |-> TRUE, items |-> q]

\* Python truthiness of an optional list argument
TruthyList(l) == l.given /\ l.items # <<>>

\* options=None of add_step
NoOptions == [given |-> FALSE, items |-> {}]

\* an options dict of add_step, as its set of (key, value) pairs
Options(items) == [given |-> TRUE, items |-> items]

NoCall ==
    [op |-> "none", input_file |-> NoInput, output_path |-> None,
     page_indexes |-> <<>>, page_count |-> 0, after_page_index |-> <<>>,
     input_files |-> <<>>, text |-> None, image_url |-> None,
     page_ranges |-> NoList, output_paths |-> NoList,
     tool |-> None, options |-> NoOptions]

\* no BuildAPIWrapper has been constructed
\* output_options: the output options the instance has accumulated
NoBuilder ==
    [built |-> FALSE, input_file |-> NoInput, steps |-> <<>>, output_options |-> {}]

\* the instruction document has no "output" key
NoOutput == [present |-> FALSE, options |-> {}]

\* uploads: the content sent for each file field
NoRequest ==
    [endpoint |-> None, files |-> <<>>, parts |-> <<>>, actions |-> <<>>, data |-> {},
     output |-> NoOutput, uploads |-> <<>>]

\* post("/build", files=files, json_data={"parts": parts, "actions": []})
BuildRequest(files, parts) ==
    [endpoint |-> "/build", files |-> files, parts |-> parts, actions |-> <<>>,
     data |-> {}, output |-> NoOutput, uploads |-> <<>>]

\* post("/process/<tool>", files=files, data=data)
ProcessRequest(tool, files, data) ==
    [endpoint |-> "/process/" \o tool, files |-> files, parts |-> <<>>,
     actions |-> <<>>, data |-> data, output |-> NoOutput, uploads |-> <<>>]

\* the part of an operation that runs before its first post: the exception
\* it raises (or None), the handles it opened, and the request it posts
LocalFail(e, opens) == [exc |-> e, opens |-> opens, request |-> NoRequest]

LocalOk(opens, req) == [exc |-> None, opens |-> opens, request |-> req]

Init ==
    /\ api_key \in {None, "key"}
    /\ pc = "idle"
    /\ call = NoCall
    /\ request = NoRequest
    /\ posts = 0
    /\ attempts = 0
    /\ retries = RetryTotal
    /\ responses = <<>>
    /\ response = NoOutcome
    /\ post_result = NoResult
    /\ result = NoResult
    /\ written = <<>>
    /\ open_handles = 0
    /\ split_i = 0
    /\ results = <<>>
    /\ prepared = NoPrepared
    /\ fs_ops = <<>>
    /\ stream_pos = "start"
    /\ builder = NoBuilder
    /\ step_calls = 0
    /\ option_calls = <<>>
    /\ environ = None
    /\ session_key = api_key
    /\ constructed = [api_key |-> api_key, environ |-> None]

\* what reading an upload value to its end gives: bytes are sent whole, an
\* open file handle is read from its start, and a stream from its position
UploadData(content, pos) ==
    CASE content.kind = "handle" -> FileContent(content.ref)
      [] content.kind = "stream" -> IF pos = "start" THEN content.ref ELSE ""
      [] OTHER -> content.ref

\* the position of the caller's stream after an upload value was read
PosAfter(content, pos) == IF content.kind = "stream" THEN "end" ELSE pos

\* the multipart body of files, its values read in order
RECURSIVE ReadUploads(_, _)
ReadUploads(files, pos) ==
    IF files = <<>>
      THEN <<>>
      ELSE <<UploadData(Head(files).content, pos)>>
               \o ReadUploads(Tail(files), PosAfter(Head(files).content, pos))

RECURSIVE PosAfterUploads(_, _)
PosAfterUploads(files, pos) ==
    IF files = <<>>
      THEN pos
      ELSE PosAfterUploads(Tail(files), PosAfter(Head(files).content, pos))

\* HTTPClient.post up to its first network attempt
EnterPost(req) ==
    /\ request' = IF KeyMissing(api_key)
                    THEN req
                    ELSE [req EXCEPT !.uploads = ReadUploads(req.files, stream_pos)]
    /\ stream_pos' = IF KeyMissing(api_key)
                       THEN stream_pos
                       ELSE PosAfterUploads(req.files, stream_pos)
    /\ posts' = posts + 1
    /\ attempts' = 0
    /\ retries' = RetryTotal
    /\ responses' = <<>>
    /\ response' = NoOutcome
    /\ IF KeyMissing(api_key)
         THEN /\ post_result' = Raise("AuthenticationError")
              /\ pc' = "posted"
         ELSE /\ post_result' = NoResult
              /\ pc' = "posting"

\* an operation c is called and runs until it raises or is inside its post
StartCall(c, local) ==
    /\ pc = "idle"
    /\ call' = c
    /\ open_handles' = open_handles + local.opens
    /\ IF local.exc # None
         THEN /\ result' = Raise(local.exc)
              /\ pc' = "done"
              /\ UNCHANGED <<request, posts, transport, post_result, stream_pos>>
         ELSE /\ EnterPost(local.request)
              /\ result' = result
    /\ UNCHANGED <<api_key, written, results, prepared, fs_ops, config, wrapper>>

\* a direct call of HTTPClient.post(endpoint)
CallPost ==
    /\ StartCall([NoCall EXCEPT !.op = "post"],
                 LocalOk(0, [NoRequest EXCEPT !.endpoint = "/test"]))
    /\ UNCHANGED split_i

\* one network attempt of session.post and the retry decision on its answer
Attempt(Outcomes) ==
    /\ pc = "posting"
    /\ \E o \in Outcomes :
        /\ attempts' = attempts + 1
        /\ responses' = Append(responses, Obs(o))
        /\ response' = o
        /\ IF IsRetry("POST", o)
             THEN /\ retries' = Increment(retries)
                  /\ IF IsExhausted(Increment(retries))
                       THEN /\ post_result' = HandleResponse(o)
                            /\ pc' = "posted"
                       ELSE /\ post_result' = NoResult
                            /\ pc' = "posting"
             ELSE /\ retries' = retries
                  /\ post_result' = HandleResponse(o)
                  /\ pc' = "posted"
    /\ UNCHANGED <<api_key, call, request, posts, result, written, open_handles,
                   split_i, results, normalizer, config, wrapper>>

\* the direct post call hands its outcome to the caller
FinishPost ==
    /\ pc = "posted"
    /\ call.op = "post"
    /\ result' = post_result
    /\ pc' = "done"
    /\ UNCHANGED <<api_key, call, request, posts, transport, post_result,
                   written, open_handles, split_i, results, normalizer, config, wrapper>>

\* save_file_output(content, output_path)
save_file_output(files, content, output_path) ==
    Append(files, [path |-> output_path, content |-> content])

\* an ending that saves to output_path before looking at the post's outcome
HandleOutputSavesFirst(op) ==
    /\ pc = "posted"
    /\ call.op = op
    /\ written' = IF Truthy(call.output_path)
                    THEN save_file_output(written, post_result.value, call.output_path)
                    ELSE written
    /\ result' = IF post_result.kind = "raise"
                   THEN post_result
                   ELSE IF Truthy(call.output_path)
                          THEN Return(None)
                          ELSE Return(post_result.value)
    /\ pc' = "done"
    /\ UNCHANGED <<api_key, call, request, posts, transport, post_result,
                   open_handles, split_i, results, normalizer, config, wrapper>>

\* an ending that returns the bytes it has saved
HandleOutputSavesAndReturns(op) ==
    /\ pc = "posted"
    /\ call.op = op
    /\ IF post_result.kind = "raise"
         THEN /\ result' = post_result
              /\ written' = written
         ELSE /\ written' = IF Truthy(call.output_path)
                              THEN save_file_output(written, post_result.value,
                                                    call.output_path)
                              ELSE written
              /\ result' = Return(post_result.value)
    /\ pc' = "done"
    /\ UNCHANGED <<api_key, call, request, posts, transport, post_result,
                   open_handles, split_i, results, normalizer, config, wrapper>>

\* the end of an operation with one post: the failure of the post is passed
\* on; its bytes are saved to output_path, or returned
HandleOutput(op) ==
    /\ pc = "posted"
    /\ call.op = op
    /\ IF post_result.kind = "raise"
         THEN /\ result' = post_result
              /\ written' = written
         ELSE IF Truthy(call.output_path)
                THEN /\ written' = save_file_output(written, post_result.value,
                                                    call.output_path)
                     /\ result' = Return(None)
                ELSE /\ written' = written
                     /\ result' = Return(post_result.value)
    /\ pc' = "done"
    /\ UNCHANGED <<api_key, call, request, posts, transport, post_result,
                   open_handles, split_i, results, normalizer, config, wrapper>>

\* the caller makes the next call on the same client
Reset ==
    /\ pc = "done"
    /\ pc' = "idle"
    /\ call' = NoCall
    /\ request' = NoRequest
    /\ posts' = 0
    /\ attempts' = 0
    /\ retries' = RetryTotal
    /\ responses' = <<>>
    /\ response' = NoOutcome
    /\ post_result' = NoResult
    /\ result' = NoResult
    /\ written' = <<>>
    /\ open_handles' = 0
    /\ split_i' = 0
    /\ results' = <<>>
    /\ prepared' = NoPrepared
    /\ fs_ops' = <<>>
    /\ stream_pos' = "start"
    /\ builder' = NoBuilder
    /\ step_calls' = 0
    /\ option_calls' = <<>>
    /\ UNCHANGED <<api_key, config>>

NextPost ==
    \/ CallPost
    \/ Attempt(PostOutcomes)
    \/ FinishPost
    \/ Reset

SpecPost == Init /\ [][NextPost]_vars

(***************************************************************************)
(* Direct operations: the part that runs before the first post.            *)
(***************************************************************************)

\* NutrientClient._process_file(tool, input_file, output_path, **options)
process_file(tool, input_file, data) ==
    LET prep == prepare_file_for_upload(input_file, "file")
    IN  IF prep.exc # None
          THEN LocalFail(prep.exc, 0)
          ELSE LocalOk(prep.opens, ProcessRequest(tool, <<FileField(prep)>>, data))

\* watermark_pdf(input_file, output_path, text, image_url) with the default
\* width, height, opacity and position
watermark_pdf(input_file, text, image_url) ==
    IF ~Truthy(text) /\ ~Truthy(image_url)
      THEN LocalFail("ValueError", 0)
      ELSE process_file("watermark-pdf", input_file,
                        {<<"width", "200">>, <<"height", "100">>,
                         <<"opacity", "1.0">>, <<"position", "center">>}
                        \cup (IF Truthy(text) THEN {<<"text", text>>}
                                              ELSE {<<"image_url", image_url>>}))

\* BuildAPIWrapper.execute of a builder without steps, as convert_to_pdf
\* runs it: self.build(input_file).execute(output_path)
execute(input_file) ==
    LET prep == prepare_file_for_upload(input_file, "file")
    IN  IF prep.exc # None
          THEN LocalFail(prep.exc, 0)
          ELSE LocalOk(prep.opens, BuildRequest(<<FileField(prep)>>, <<FilePart("file")>>))

RECURSIVE DuplicatePartsOnce(_)
\* parts that leave out a page index that comes again later in the list
DuplicatePartsOnce(page_indexes) ==
    IF page_indexes = <<>>
      THEN <<>>
      ELSE (IF \E i \in 2..Len(page_indexes) : page_indexes[i] = Head(page_indexes)
              THEN <<>>
              ELSE <<RangePart("file", Head(page_indexes), Head(page_indexes))>>)
           \o DuplicatePartsOnce(Tail(page_indexes))

RECURSIVE DuplicateParts(_)
\* one part per page index, in list order
DuplicateParts(page_indexes) ==
    IF page_indexes = <<>>
      THEN <<>>
      ELSE <<RangePart("file", Head(page_indexes), Head(page_indexes))>>
           \o DuplicateParts(Tail(page_indexes))

\* a duplicate_pdf_pages without the check of an empty page_indexes
duplicate_pdf_pages_accepts_empty(input_file, page_indexes) ==
    LET prep == prepare_file_for_upload(input_file, "file")
    IN  IF prep.exc # None
          THEN LocalFail(prep.exc, 0)
          ELSE LocalOk(prep.opens,
                       BuildRequest(<<FileField(prep)>>, DuplicateParts(page_indexes)))

\* duplicate_pdf_pages(input_file, page_indexes, output_path)
duplicate_pdf_pages(input_file, page_indexes) ==
    IF page_indexes = <<>>
      THEN LocalFail("ValueError", 0)
      ELSE LET prep == prepare_file_for_upload(input_file, "file")
           IN  IF prep.exc # None
                 THEN LocalFail(prep.exc, 0)
                 ELSE LocalOk(prep.opens,
                              BuildRequest(<<FileField(prep)>>,
                                           DuplicateParts(page_indexes)))

RECURSIVE DeleteLoopKeepsDeleted(_, _, _, _)
\* a loop that resumes at the deleted page instead of after it
DeleteLoopKeepsDeleted(sorted_indexes, i, current_page, parts) ==
    IF i > Len(sorted_indexes)
      THEN [parts |-> parts, current_page |-> current_page]
      ELSE LET delete_index == sorted_indexes[i]
           IN  IF delete_index < 0
                 THEN DeleteLoopKeepsDeleted(sorted_indexes, i + 1, current_page, parts)
                 ELSE DeleteLoopKeepsDeleted(
                          sorted_indexes, i + 1, delete_index,
                          IF current_page < delete_index
                            THEN Append(parts, RangePart("file", current_page, delete_index))
                            ELSE parts)

RECURSIVE DeleteLoop(_, _, _, _)
\* the loop over sorted_indexes that collects the ranges between deleted pages
DeleteLoop(sorted_indexes, i, current_page, parts) ==
    IF i > Len(sorted_indexes)
      THEN [parts |-> parts, current_page |-> current_page]
      ELSE LET delete_index == sorted_indexes[i]
           IN  IF delete_index < 0
                 THEN DeleteLoop(sorted_indexes, i + 1, current_page, parts)
                 ELSE DeleteLoop(
                          sorted_indexes, i + 1, delete_index + 1,
                          IF current_page < delete_index
                            THEN Append(parts, RangePart("file", current_page, delete_index))
                            ELSE parts)

\* the parts that keep every page outside page_indexes
DeleteParts(page_indexes) ==
    LET sorted_indexes == SortSet(Range(page_indexes))
        loop == DeleteLoop(sorted_indexes, 1, 0, <<>>)
    IN  IF loop.current_page >= 0
          THEN Append(loop.parts, FromPart("file", loop.current_page))
          ELSE loop.parts

\* a delete_pdf_pages that posts the ranges around the non-negative indexes
\* when a negative index is given
delete_pdf_pages_skips_negative(input_file, page_indexes) ==
    IF page_indexes = <<>>
      THEN LocalFail("ValueError", 0)
      ELSE LET prep == prepare_file_for_upload(input_file, "file")
               parts == DeleteParts(page_indexes)
           IN  IF prep.exc # None
                 THEN LocalFail(prep.exc, 0)
                 ELSE LocalOk(prep.opens, BuildRequest(<<FileField(prep)>>, parts))

\* delete_pdf_pages(input_file, page_indexes, output_path)
delete_pdf_pages(input_file, page_indexes) ==
    IF page_indexes = <<>>
      THEN LocalFail("ValueError", 0)
      ELSE LET prep == prepare_file_for_upload(input_file, "file")
               parts == DeleteParts(page_indexes)
           IN  IF prep.exc # None
                 THEN LocalFail(prep.exc, 0)
                 ELSE IF AnyNegative(page_indexes)
                        THEN LocalFail("ValueError", prep.opens)
                        ELSE IF parts = <<>>
                               THEN LocalFail("ValueError", prep.opens)
                               ELSE LocalOk(prep.opens,
                                            BuildRequest(<<FileField(prep)>>, parts))

\* the parts of add_page; after_page_index is <<>> for None and <<i>> for i
AddPageParts(page_count, after_page_index) ==
    IF after_page_index = <<>>
      THEN <<FilePart("file"), NewPagePart(page_count)>>
      ELSE (IF after_page_index[1] >= 0
              THEN <<RangePart("file", 0, after_page_index[1] + 1)>>
              ELSE <<>>)
           \o <<NewPagePart(page_count), FromPart("file", after_page_index[1] + 1)>>

\* add_page(input_file, output_path, page_count=, after_page_index=)
add_page(input_file, page_count, after_page_index) ==
    IF page_count < 1
      THEN LocalFail("ValueError", 0)
      ELSE IF after_page_index # <<>> /\ after_page_index[1] < 0
             THEN LocalFail("ValueError", 0)
             ELSE LET prep == prepare_file_for_upload(input_file, "file")
                  IN  IF prep.exc # None
                        THEN LocalFail(prep.exc, 0)
                        ELSE LocalOk(prep.opens,
                                     BuildRequest(<<FileField(prep)>>,
                                                  AddPageParts(page_count,
                                                               after_page_index)))

\* f"file{i}"
FieldName(i) == "file" \o ToString(i)

RECURSIVE MergeLoopPrepends(_, _, _, _, _)
\* a loop that puts each new part in front of the parts collected so far
MergeLoopPrepends(input_files, i, files, parts, opens) ==
    IF i >= Len(input_files)
      THEN LocalOk(opens, BuildRequest(files, parts))
      ELSE LET prep == prepare_file_for_upload(input_files[i + 1], FieldName(i))
           IN  IF prep.exc # None
                 THEN LocalFail(prep.exc, opens)
                 ELSE MergeLoopPrepends(input_files, i + 1,
                                        Append(files, FileField(prep)),
                                        <<FilePart(FieldName(i))>> \o parts,
                                        opens + prep.opens)

RECURSIVE MergeLoop(_, _, _, _, _)
\* the loop of merge_pdfs over enumerate(input_files), i counted from 0
MergeLoop(input_files, i, files, parts, opens) ==
    IF i >= Len(input_files)
      THEN LocalOk(opens, BuildRequest(files, parts))
      ELSE LET prep == prepare_file_for_upload(input_files[i + 1], FieldName(i))
           IN  IF prep.exc # None
                 THEN LocalFail(prep.exc, opens)
                 ELSE MergeLoop(input_files, i + 1, Append(files, FileField(prep)),
                                Append(parts, FilePart(FieldName(i))),
                                opens + prep.opens)

\* merge_pdfs(input_files, output_path)
merge_pdfs(input_files) ==
    IF Len(input_files) < 2
      THEN LocalFail("ValueError", 0)
      ELSE MergeLoop(input_files, 0, <<>>, <<>>, 0)

\* split_pdf: the page ranges that are processed
SplitRanges(page_ranges) ==
    IF ~TruthyList(page_ranges)
      THEN <<RangePart("file", 0, 1)>>
      ELSE page_ranges.items

\* split_pdf: one pass of the loop body up to its post, for range i
SplitIteration(input_file, page_ranges, i) ==
    LET prep == prepare_file_for_upload(input_file, "file")
    IN  IF prep.exc # None
          THEN LocalFail(prep.exc, 0)
          ELSE LocalOk(prep.opens,
                       BuildRequest(<<FileField(prep)>>, <<SplitRanges(page_ranges)[i]>>))

\* split_pdf(input_file, page_ranges, output_paths) up to its first post
split_pdf(input_file, page_ranges, output_paths) ==
    IF /\ TruthyList(output_paths)
       /\ TruthyList(page_ranges)
       /\ Len(output_paths.items) # Len(page_ranges.items)
      THEN LocalFail("ValueError", 0)
      ELSE SplitIteration(input_file, page_ranges, 1)

(***************************************************************************)
(* Bounds of the checked instances.                                        *)
(***************************************************************************)

\* longest page_indexes list given to an operation
MaxIndexes == 2

\* largest page index given to an operation
MaxPageIndex == 1

\* longest page_indexes list and largest index of the parts instances
MaxPartIndexes == 3

MaxPartIndex == 3

\* largest document the parts are read against
MaxPages == 5

\* largest page_count given to add_page
MaxPageCount == 2

\* most input files given to merge_pdfs
MaxFiles == 3

\* most page ranges and output paths given to split_pdf
MaxRanges == 2

SeqsUpTo(S, n) == UNION {[1..k -> S] : k \in 0..n}

OutputPaths == {None, "out.pdf"}

PageIndexLists == SeqsUpTo(-1..MaxPageIndex, MaxIndexes)

PartIndexLists == SeqsUpTo(-1..MaxPartIndex, MaxPartIndexes)

\* the k-th page range and output path given to split_pdf
SplitRangeAt(k) == RangePart("file", k - 1, k)

SplitPathAt(k) == "part" \o ToString(k) \o ".pdf"

SplitRangeLists == {NoList} \cup {Given([i \in 1..k |-> SplitRangeAt(i)]) : k \in 0..MaxRanges}

SplitPathLists == {NoList} \cup {Given([i \in 1..k |-> SplitPathAt(i)]) : k \in 0..MaxRanges}

(***************************************************************************)
(* Direct operations: the calls.                                           *)
(***************************************************************************)

\* flatten_annotations(input_file, output_path)
CallFlatten ==
    /\ \E f \in FileInputs, out \in OutputPaths :
          StartCall([NoCall EXCEPT !.op = "flatten_annotations", !.input_file = f,
                                   !.output_path = out],
                    process_file("flatten-annotations", f, {}))
    /\ UNCHANGED split_i

\* watermark_pdf(input_file, output_path, text=, image_url=)
CallWatermark ==
    /\ \E f \in FileInputs, out \in OutputPaths,
          text \in {None, "DRAFT"}, image_url \in {None, "https://x/y.png"} :
          StartCall([NoCall EXCEPT !.op = "watermark_pdf", !.input_file = f,
                                   !.output_path = out, !.text = text,
                                   !.image_url = image_url],
                    watermark_pdf(f, text, image_url))
    /\ UNCHANGED split_i

\* convert_to_pdf(input_file, output_path): build(input_file).execute(output_path)
CallConvert ==
    /\ \E f \in FileInputs, out \in OutputPaths :
          StartCall([NoCall EXCEPT !.op = "convert_to_pdf", !.input_file = f,
                                   !.output_path = out],
                    execute(f))
    /\ UNCHANGED split_i

\* duplicate_pdf_pages(input_file, page_indexes, output_path)
CallDuplicate(Inputs, Lists, Outs) ==
    /\ \E f \in Inputs, page_indexes \in Lists, out \in Outs :
          StartCall([NoCall EXCEPT !.op = "duplicate_pdf_pages", !.input_file = f,
                                   !.output_path = out, !.page_indexes = page_indexes],
                    duplicate_pdf_pages(f, page_indexes))
    /\ UNCHANGED split_i

\* delete_pdf_pages(input_file, page_indexes, output_path)
CallDelete(Inputs, Lists, Outs) ==
    /\ \E f \in Inputs, page_indexes \in Lists, out \in Outs :
          StartCall([NoCall EXCEPT !.op = "delete_pdf_pages", !.input_file = f,
                                   !.output_path = out, !.page_indexes = page_indexes],
                    delete_pdf_pages(f, page_indexes))
    /\ UNCHANGED split_i

\* add_page(input_file, output_path, page_count=, after_page_index=)
CallAddPage ==
    /\ \E f \in FileInputs, out \in OutputPaths, page_count \in 0..MaxPageCount,
          after_page_index \in SeqsUpTo(-1..MaxPageIndex, 1) :
          StartCall([NoCall EXCEPT !.op = "add_page", !.input_file = f,
                                   !.output_path = out, !.page_count = page_count,
                                   !.after_page_index = after_page_index],
                    add_page(f, page_count, after_page_index))
    /\ UNCHANGED split_i

\* merge_pdfs(input_files, output_path)
CallMerge ==
    /\ \E input_files \in SeqsUpTo(FileInputs, MaxFiles), out \in OutputPaths :
          StartCall([NoCall EXCEPT !.op = "merge_pdfs", !.input_files = input_files,
                                   !.output_path = out],
                    merge_pdfs(input_files))
    /\ UNCHANGED split_i

\* split_pdf(input_file, page_ranges, output_paths) up to its first post
CallSplit ==
    /\ \E f \in FileInputs, page_ranges \in SplitRangeLists,
          output_paths \in SplitPathLists :
          StartCall([NoCall EXCEPT !.op = "split_pdf", !.input_file = f,
                                   !.page_ranges = page_ranges,
                                   !.output_paths = output_paths],
                    split_pdf(f, page_ranges, output_paths))
    /\ split_i' = 1

\* the end of _process_file
FinishProcessFile == \E op \in {"flatten_annotations", "watermark_pdf"} : HandleOutput(op)

\* the end of BuildAPIWrapper.execute
FinishExecute == HandleOutput("convert_to_pdf")

FinishDuplicate == HandleOutput("duplicate_pdf_pages")

FinishDelete == HandleOutput("delete_pdf_pages")

FinishAddPage == HandleOutput("add_page")

FinishMerge == HandleOutput("merge_pdfs")

\* split_pdf after the post for range split_i: the result is saved or kept,
\* and the loop goes on to the next range or the call returns
FinishSplit ==
    /\ pc = "posted"
    /\ call.op = "split_pdf"
    /\ IF post_result.kind = "raise"
         THEN /\ result' = post_result
              /\ pc' = "done"
              /\ UNCHANGED <<request, posts, transport, post_result, written,
                             open_handles, split_i, results, stream_pos>>
         ELSE LET saves == /\ TruthyList(call.output_paths)
                           /\ split_i - 1 < Len(call.output_paths.items)
                  files == IF saves
                             THEN save_file_output(written, post_result.value,
                                                   call.output_paths.items[split_i])
                             ELSE written
                  kept == IF saves THEN results ELSE Append(results, post_result.value)
                  next == SplitIteration(call.input_file, call.page_ranges, split_i + 1)
              IN  /\ written' = files
                  /\ IF split_i < Len(SplitRanges(call.page_ranges))
                       THEN /\ split_i' = split_i + 1
                            /\ results' = kept
                            /\ open_handles' = open_handles + next.opens
                            /\ IF next.exc # None
                                 THEN /\ result' = Raise(next.exc)
                                      /\ pc' = "done"
                                      /\ UNCHANGED <<request, posts, transport, post_result,
                                                     stream_pos>>
                                 ELSE /\ EnterPost(next.request)
                                      /\ result' = result
                       ELSE /\ results' = IF TruthyList(call.output_paths) THEN <<>> ELSE kept
                            /\ result' = Return("list")
                            /\ pc' = "done"
                            /\ UNCHANGED <<request, posts, transport, post_result,
                                           open_handles, split_i, stream_pos>>
    /\ UNCHANGED <<api_key, call, prepared, fs_ops, config, wrapper>>

Next ==
    \/ CallFlatten
    \/ CallWatermark
    \/ CallConvert
    \/ CallDuplicate(FileInputs, PageIndexLists, OutputPaths)
    \/ CallDelete(FileInputs, PageIndexLists, OutputPaths)
    \/ CallAddPage
    \/ CallMerge
    \/ CallSplit
    \/ Attempt(OpOutcomes)
    \/ FinishProcessFile
    \/ FinishExecute
    \/ FinishDuplicate
    \/ FinishDelete
    \/ FinishAddPage
    \/ FinishMerge
    \/ FinishSplit
    \/ Reset

Spec == Init /\ [][Next]_vars

\* delete_pdf_pages on longer page index lists
NextParts ==
    \/ CallDelete({BytesInput}, PartIndexLists, {None})
    \/ Attempt({St(200, BodyA), St(404, BodyE)})
    \/ FinishDelete
    \/ Reset

SpecParts == Init /\ [][NextParts]_vars

(***************************************************************************)
(* Direct calls of the file normalizers.                                   *)
(***************************************************************************)

\* a normalizer is called with file_input and returns or raises
NormalizerCall(op, file_input, out) ==
    /\ pc = "idle"
    /\ call' = [NoCall EXCEPT !.op = op, !.input_file = file_input]
    /\ prepared' = out
    /\ fs_ops' = out.fs
    /\ stream_pos' = IF out.reads THEN "end" ELSE stream_pos
    /\ open_handles' = open_handles + out.opens
    /\ result' = IF out.exc # None THEN Raise(out.exc) ELSE Return("tuple")
    /\ pc' = "done"
    /\ UNCHANGED <<api_key, request, posts, transport, post_result, written, results,
                   wrapper, config>>

\* the field names the operations upload under
FieldNames == {"file", "file0", "file1", "file2"}

\* prepare_file_input(file_input)
CallPrepareFileInput ==
    /\ \E f \in NormalizerInputs :
          NormalizerCall("prepare_file_input", f, prepare_file_input(f))
    /\ UNCHANGED split_i

\* prepare_file_for_upload(file_input, field_name)
CallPrepareFileForUpload ==
    /\ \E f \in NormalizerInputs, field_name \in FieldNames :
          NormalizerCall("prepare_file_for_upload", f,
                         prepare_file_for_upload(f, field_name))
    /\ UNCHANGED split_i

NextFiles ==
    \/ CallPrepareFileInput
    \/ CallPrepareFileForUpload
    \/ Reset

SpecFiles == Init /\ [][NextFiles]_vars

(***************************************************************************)
(* The client's credential.                                                *)
(***************************************************************************)

\* a resolution that looks at the environment first
ResolveApiKeyEnvFirst(api_key_arg, env) == IF Truthy(env) THEN env ELSE api_key_arg

\* api_key or os.environ.get("NUTRIENT_API_KEY")
ResolveApiKey(api_key_arg, env) == IF Truthy(api_key_arg) THEN api_key_arg ELSE env

\* the values of NUTRIENT_API_KEY
EnvValues == {None, "env-key", "other-key"}

\* NutrientClient(api_key=api_key_arg): the credential is resolved and handed
\* to HTTPClient, whose session gets it as its X-Api-Key header
NewClient ==
    /\ pc = "idle"
    /\ \E api_key_arg \in {None, "", "explicit-key"} :
          /\ api_key' = ResolveApiKey(api_key_arg, environ)
          /\ session_key' = ResolveApiKey(api_key_arg, environ)
          /\ constructed' = [api_key |-> api_key_arg, environ |-> environ]
    /\ UNCHANGED <<pc, call, request, posts, transport, post_result, result, written,
                   open_handles, split_i, results, normalizer, wrapper, environ>>

\* the process sets or unsets NUTRIENT_API_KEY
SetEnv ==
    /\ \E v \in EnvValues \ {environ} : environ' = v
    /\ UNCHANGED <<api_key, pc, call, request, posts, transport, post_result, result,
                   written, open_handles, split_i, results, normalizer, wrapper,
                   session_key, constructed>>

NextClient ==
    \/ NewClient
    \/ SetEnv
    \/ CallPost
    \/ Attempt({St(200, BodyA), St(401, BodyE)})
    \/ FinishPost
    \/ Reset

SpecClient == Init /\ [][NextClient]_vars

(***************************************************************************)
(* The workflow builder.                                                   *)
(***************************************************************************)

\* most add_step calls made on one builder
MaxSteps == 3

\* most set_output_options calls made on one builder
MaxOptionCalls == 2

\* the keyword arguments set_output_options is called with
OutputOptionSets ==
    {{<<"optimize", "True">>},
     {<<"optimize", "False">>, <<"metadata", "{title: My Doc, author: John}">>},
     {<<"metadata", "{title: Other}">>}}

\* the tools add_step is called with
StepTools ==
    {"rotate-pages", "watermark-pdf", "ocr-pdf", "flatten-annotations", "custom-tool"}

\* the options add_step is called with
StepOptions ==
    {NoOptions,
     Options({}),
     Options({<<"degrees", "90">>}),
     Options({<<"degrees", "180">>, <<"page_indexes", "[0, 2, 4]">>}),
     Options({<<"language", "de">>}),
     Options({<<"text", "CONFIDENTIAL">>, <<"opacity", "0.3">>,
              <<"position", "top-right">>}),
     Options({<<"image_url", "https://example.com/logo.png">>}),
     Options({<<"param", "value">>})}

\* BuildAPIWrapper.__init__(client, input_file)
BuildAPIWrapper(input_file) ==
    [built |-> TRUE, input_file |-> input_file, steps |-> <<>>, output_options |-> {}]

\* BuildAPIWrapper.add_step(tool, options) on the builder b: the exception
\* raised and the builder afterwards
add_step(b, tool, options) == [exc |-> "NotImplementedError", builder |-> b]

\* BuildAPIWrapper.set_output_options(**options) on the builder b: the class
\* defines no such method, so the attribute lookup raises
set_output_options(b, options) == [exc |-> "AttributeError", builder |-> b]

\* BuildAPIWrapper._build_instructions() on the builder b: no such method
build_instructions(b) == [exc |-> "AttributeError", instructions |-> NoRequest]

\* BuildAPIWrapper.execute(output_path) on the builder b
builder_execute(b, output_path) == [exc |-> "NotImplementedError", builder |-> b]

\* the caller holds a builder and its last call on it has ended
BuilderReady ==
    /\ pc = "done"
    /\ call.op \in {"build", "add_step", "set_output_options", "_build_instructions"}
    /\ builder.built

\* client.build(input_file)
CallBuild ==
    /\ pc = "idle"
    /\ \E f \in FileInputs :
          /\ call' = [NoCall EXCEPT !.op = "build", !.input_file = f]
          /\ builder' = BuildAPIWrapper(f)
    /\ step_calls' = 0
    /\ option_calls' = <<>>
    /\ result' = Return("builder")
    /\ pc' = "done"
    /\ UNCHANGED <<api_key, request, posts, transport, post_result, written,
                   open_handles, split_i, results, normalizer, config>>

\* builder.add_step(tool, options) on the builder made by the last build
CallAddStep ==
    /\ BuilderReady
    /\ step_calls < MaxSteps
    /\ \E tool \in StepTools, options \in StepOptions :
          LET out == add_step(builder, tool, options)
          IN  /\ call' = [NoCall EXCEPT !.op = "add_step",
                                        !.input_file = builder.input_file,
                                        !.tool = tool, !.options = options]
              /\ builder' = out.builder
              /\ result' = IF out.exc # None THEN Raise(out.exc) ELSE Return("builder")
    /\ step_calls' = step_calls + 1
    /\ pc' = "done"
    /\ UNCHANGED <<api_key, request, posts, transport, post_result, written,
                   open_handles, split_i, results, normalizer, config, option_calls>>

\* builder.set_output_options(**options): the class has no such method
CallSetOutputOptions ==
    /\ BuilderReady
    /\ Len(option_calls) < MaxOptionCalls
    /\ \E options \in OutputOptionSets :
          LET out == set_output_options(builder, options)
          IN  /\ call' = [NoCall EXCEPT !.op = "set_output_options",
                                        !.input_file = builder.input_file,
                                        !.options = Options(options)]
              /\ builder' = out.builder
              /\ result' = IF out.exc # None THEN Raise(out.exc) ELSE Return("builder")
              /\ option_calls' = Append(option_calls, options)
    /\ pc' = "done"
    /\ UNCHANGED <<api_key, request, posts, transport, post_result, written,
                   open_handles, split_i, results, normalizer, config, step_calls>>

\* builder._build_instructions(): the class has no such method
CallBuildInstructions ==
    /\ BuilderReady
    /\ LET out == build_instructions(builder)
       IN  /\ call' = [NoCall EXCEPT !.op = "_build_instructions",
                                     !.input_file = builder.input_file]
           /\ request' = out.instructions
           /\ result' = IF out.exc # None THEN Raise(out.exc) ELSE Return("instructions")
    /\ pc' = "done"
    /\ UNCHANGED <<api_key, posts, transport, post_result, written, open_handles,
                   split_i, results, normalizer, config, wrapper>>

\* builder.execute(output_path)
CallExecute ==
    /\ BuilderReady
    /\ \E output_path \in OutputPaths :
          LET out == builder_execute(builder, output_path)
          IN  /\ call' = [NoCall EXCEPT !.op = "execute",
                                        !.input_file = builder.input_file,
                                        !.output_path = output_path]
              /\ builder' = out.builder
              /\ result' = Raise(out.exc)
    /\ pc' = "done"
    /\ UNCHANGED <<api_key, request, posts, transport, post_result, written,
                   open_handles, split_i, results, normalizer, config, step_calls,
                   option_calls>>

NextBuilder ==
    \/ CallBuild
    \/ CallAddStep
    \/ CallSetOutputOptions
    \/ CallBuildInstructions
    \/ CallExecute
    \/ Reset

SpecBuilder == Init /\ [][NextBuilder]_vars

(***************************************************************************)
(* Properties of the transport client.                                     *)
(***************************************************************************)

PostOver == pc \in {"posted", "done"}

Last(q) == q[Len(q)]

Front(q) == SubSeq(q, 1, Len(q) - 1)

\* the statuses the retry policy is documented to retry
RetriedStatuses == {429, 500, 502, 503, 504}

IsRetriedStatus(r) == r.kind = "status" /\ r.status \in RetriedStatuses

Is2xx(r) == r.kind = "status" /\ r.status >= 200 /\ r.status < 300

AllRetriedStatuses(q) == \A i \in 1..Len(q) : IsRetriedStatus(q[i])

\* C1: whatever the server answers and however the network fails, one post
\* makes at most 4 network attempts (the first and at most 3 retries); after
\* the fourth attempt the post is over, having returned or raised.
C1_AtMostFourAttempts ==
    /\ attempts <= 4
    /\ Len(responses) = attempts
    /\ pc = "posting" => attempts < 4 /\ post_result.kind = "none"
    /\ PostOver => post_result.kind \in {"return", "raise"}

\* a post that used all four attempts and then ended
C1_Witness == pc = "posted" /\ attempts = 4 /\ post_result.kind = "raise"

Interval(a, b) == IF b > a THEN [i \in 1..(b - a) |-> a + i - 1] ELSE <<>>

Smaller(a, b) == IF a < b THEN a ELSE b

\* the pages of an n-page document that a part selects, `end` read as
\* exclusive and a missing `end` as the end of the document
PartPages(part, n) ==
    CASE part.kind = "file" -> Interval(0, n)
      [] part.kind = "range" -> Interval(part.start, Smaller(part.end, n))
      [] part.kind = "from" -> Interval(part.start, n)
      [] OTHER -> <<>>

RECURSIVE SelectedPages(_, _)
SelectedPages(parts, n) ==
    IF parts = <<>>
      THEN <<>>
      ELSE PartPages(Head(parts), n) \o SelectedPages(Tail(parts), n)

\* the pages of an n-page document outside D, ascending
KeptPages(D, n) == SortSet({p \in 0..(n - 1) : p \notin Range(D)})

\* C6: for a non-empty list D of non-negative page indexes, in any order and
\* with duplicates, the parts delete_pdf_pages sends select exactly the pages
\* outside set(D), each once and ascending; D = [0, 2] gives the ranges
\* [{start: 1, end: 2}, {start: 3}].
C6_DeleteKeepsComplement ==
    (/\ call.op = "delete_pdf_pages"
     /\ call.page_indexes # <<>>
     /\ ~AnyNegative(call.page_indexes)
     /\ call.input_file.kind = "bytes")
        => /\ posts = 1
           /\ request.endpoint = "/build"
           /\ \A n \in 1..MaxPages :
                 SelectedPages(request.parts, n) = KeptPages(call.page_indexes, n)
           /\ call.page_indexes = <<0, 2>>
                 => request.parts = <<RangePart("file", 1, 2), FromPart("file", 3)>>

\* page_indexes = [0, 2] sent as [{start: 1, end: 2}, {start: 3}]
C6_Witness ==
    /\ call.op = "delete_pdf_pages"
    /\ call.page_indexes = <<0, 2>>
    /\ request.parts = <<RangePart("file", 1, 2), FromPart("file", 3)>>
    /\ pc = "done"
    /\ result = Return(BodyA)

SinglePostOps ==
    {"flatten_annotations", "watermark_pdf", "convert_to_pdf", "duplicate_pdf_pages",
     "delete_pdf_pages", "add_page", "merge_pdfs"}

MissingPath(f) == f.kind = "path" /\ f.ref = "missing.pdf"

\* the local preconditions of the direct operations
FailsPrecondition(c) ==
    \/ c.op \in {"duplicate_pdf_pages", "delete_pdf_pages"} /\ c.page_indexes = <<>>
    \/ c.op = "delete_pdf_pages" /\ \E i \in 1..Len(c.page_indexes) : c.page_indexes[i] < 0
    \/ c.op = "add_page" /\ c.page_count < 1
    \/ c.op = "merge_pdfs" /\ Len(c.input_files) < 2
    \/ c.op = "watermark_pdf" /\ c.text = None /\ c.image_url = None
    \/ /\ c.op = "split_pdf"
       /\ c.page_ranges.items # <<>>
       /\ c.output_paths.items # <<>>
       /\ Len(c.page_ranges.items) # Len(c.output_paths.items)
    \/ c.op \notin {"none", "post", "merge_pdfs"} /\ MissingPath(c.input_file)
    \/ c.op = "merge_pdfs" /\ \E i \in 1..Len(c.input_files) : MissingPath(c.input_files[i])

C10_HandlesClosed == pc = "done" => open_handles = 0

\* a file input that prepare_file_for_upload accepts
Readable(f) == f.kind \in {"bytes", "stream"} \/ (f.kind = "path" /\ f.ref # "missing.pdf")

\* the upload field holds the file input f
Carries(field, f) ==
    IF f.kind = "path" THEN field.filename = f.ref ELSE field.content.ref = f.ref

\* C11: for n >= 2 input files that can all be read, merge_pdfs posts exactly
\* n file fields and exactly n parts; the i-th field carries the i-th input
\* file and the i-th part references that field, so the parts are in the
\* caller's order of input_files.
C11_MergeKeepsOrder ==
    (/\ call.op = "merge_pdfs"
     /\ Len(call.input_files) >= 2
     /\ \A i \in 1..Len(call.input_files) : Readable(call.input_files[i]))
        => /\ posts = 1
           /\ request.endpoint = "/build"
           /\ Len(request.files) = Len(call.input_files)
           /\ Len(request.parts) = Len(call.input_files)
           /\ \A i \in 1..Len(call.input_files) :
                 /\ Carries(request.files[i], call.input_files[i])
                 /\ request.parts[i] = FilePart(request.files[i].field)
                 /\ \A j \in 1..Len(call.input_files) :
                       request.files[i].field = request.files[j].field => i = j

\* three different inputs merged, the parts in the order of the inputs
C11_Witness ==
    /\ call.op = "merge_pdfs"
    /\ call.input_files = <<PathInput("large.pdf"), BytesInput, PathInput("small.pdf")>>
    /\ request.parts = <<FilePart("file0"), FilePart("file1"), FilePart("file2")>>
    /\ request.files[1].filename = "large.pdf"
    /\ request.files[3].filename = "small.pdf"
    /\ pc = "done"
    /\ result = Return(BodyA)

C14_DuplicateOnePartPerIndex ==
    (/\ call.op = "duplicate_pdf_pages"
     /\ call.page_indexes # <<>>
     /\ Readable(call.input_file))
        => /\ posts = 1
           /\ Len(request.parts) = Len(call.page_indexes)
           /\ \A i \in 1..Len(call.page_indexes) :
                 /\ request.parts[i].kind = "range"
                 /\ request.parts[i].file = "file"
                 /\ request.parts[i].start = call.page_indexes[i]
                 /\ request.parts[i].end = call.page_indexes[i]

\* the last page duplicated twice through the index -1
C14_Witness ==
    /\ call.op = "duplicate_pdf_pages"
    /\ call.page_indexes = <<-1, -1>>
    /\ request.parts = <<RangePart("file", -1, -1), RangePart("file", -1, -1)>>
    /\ pc = "done"
    /\ result = Return(BodyA)

\* C15: add_page with a negative after_page_index, a page_count of at least
\* 1 and an input file that can be read does not raise locally: the index is
\* forwarded in the parts of a posted request.
C15_AddPageForwardsNegative ==
    (/\ call.op = "add_page"
     /\ call.page_count >= 1
     /\ call.after_page_index # <<>>
     /\ call.after_page_index[1] < 0
     /\ Readable(call.input_file))
        => /\ posts = 1
           /\ request.endpoint = "/build"

\* q is a sorted run of contiguous page indexes
ContiguousRun(q) == q # <<>> /\ \A i \in 1..(Len(q) - 1) : q[i + 1] = q[i] + 1

\* C16: for a sorted list of contiguous page indexes the parts hold exactly
\* one range that covers the whole run; for two non-adjacent indexes they
\* hold two disjoint ranges.
C16_ContiguousRunCoalesced ==
    (/\ call.op = "duplicate_pdf_pages"
     /\ Readable(call.input_file)
     /\ \A i \in 1..Len(call.page_indexes) : call.page_indexes[i] >= 0)
        => /\ ContiguousRun(call.page_indexes)
                 => /\ Len(request.parts) = 1
                    /\ request.parts[1].start = call.page_indexes[1]
           /\ (/\ Len(call.page_indexes) = 2
               /\ call.page_indexes[2] > call.page_indexes[1] + 1)
                 => /\ Len(request.parts) = 2
                    /\ request.parts[1].end < request.parts[2].start

\* C17: prepare_file_for_upload on an existing path returns an open read
\* handle exactly when the file's size is strictly greater than
\* 10 * 1024 * 1024 bytes; a file of exactly that size or less is returned as
\* bytes equal to its full content.  The size is taken from the file's
\* metadata before any content is read, and a streamed file is not read.
C17_HandleIffAboveThreshold ==
    (/\ call.op = "prepare_file_for_upload"
     /\ call.input_file.kind = "path"
     /\ call.input_file.ref # "missing.pdf")
        => /\ prepared.exc = None
           /\ prepared.filename = call.input_file.ref
           /\ (prepared.content.kind = "handle")
                 <=> (FileSize(call.input_file.ref) > 10485760)
           /\ prepared.content.kind = "handle"
                 => /\ open_handles = 1
                    /\ \A i \in 1..Len(fs_ops) : fs_ops[i] # "read_bytes"
           /\ FileSize(call.input_file.ref) <= 10485760
                 => /\ prepared.content =
                          [kind |-> "bytes", ref |-> FileContent(call.input_file.ref)]
                    /\ open_handles = 0
           /\ \E i \in 1..Len(fs_ops) :
                 /\ fs_ops[i] = "stat"
                 /\ \A j \in 1..Len(fs_ops) : fs_ops[j] \in {"open", "read_bytes"} => i < j

\* a file of exactly 10 MiB, returned as bytes
C17_Witness ==
    /\ call.op = "prepare_file_for_upload"
    /\ call.input_file = PathInput("exact.pdf")
    /\ FileSize("exact.pdf") = 10485760
    /\ prepared.content = [kind |-> "bytes", ref |-> "exact-content"]
    /\ fs_ops = <<"exists", "stat", "read_bytes">>
    /\ open_handles = 0
    /\ pc = "done"

\* C18: a normalizer given an open stream returns bytes equal to the
\* stream's content (text encoded to bytes) and leaves the stream drained,
\* never the stream object itself; the filename is the stream's name when
\* it has one and "document" otherwise.  This holds for prepare_file_input
\* and for prepare_file_for_upload.
C18_StreamDrained ==
    (/\ call.op \in {"prepare_file_input", "prepare_file_for_upload"}
     /\ call.input_file.kind = "stream")
        => /\ prepared.exc = None
           /\ prepared.content = [kind |-> "bytes", ref |-> call.input_file.ref]
           /\ stream_pos = "end"
           /\ prepared.filename \in
                 (IF call.input_file.ref \in {"named-content", "named-text-content"}
                    THEN {"named.txt", "/tmp/named.txt"}
                    ELSE {"document"})

\* C19: add_step returns the builder it was called on and appends exactly
\* one action at the end of the accumulated actions, so that after any
\* sequence of add_step calls the builder holds one action per call; the
\* input file of the builder is left as it was.
C19_AddStepAppendsOne ==
    (call.op = "add_step" /\ pc = "done")
        => /\ result = Return("builder")
           /\ Len(builder.steps) = step_calls
           /\ builder.input_file = call.input_file

\* the options of o under the key k, renamed to the key k2
Renamed(o, k, k2) == {<<k2, p[2]>> : p \in {q \in o : q[1] = k}}

\* the action the translation table gives for add_step(tool, options)
TableAction(tool, options) ==
    LET o == options.items
    IN  CASE tool = "rotate-pages" ->
               {<<"type", "rotate">>} \cup Renamed(o, "degrees", "rotateBy")
                   \cup Renamed(o, "page_indexes", "pageIndexes")
          [] tool = "watermark-pdf" ->
               {<<"type", "watermark">>} \cup Renamed(o, "text", "text")
                   \cup Renamed(o, "image_url", "image.url")
                   \cup Renamed(o, "opacity", "opacity")
                   \cup Renamed(o, "position", "position")
          [] tool = "ocr-pdf" -> {<<"type", "ocr">>} \cup Renamed(o, "language", "language")
          [] tool = "flatten-annotations" -> {<<"type", "flatten">>}
          [] OTHER -> {<<"type", tool>>} \cup o

\* C20: the action add_step(tool, options) adds is exactly the table
\* translation of its arguments, with no extra and no missing keys: the
\* wire type of the tool and its renamed options for a table tool, the tool
\* name and the options as given for any other tool, and only the type key
\* when options is empty or None.
C20_AddStepTranslates ==
    (call.op = "add_step" /\ pc = "done")
        => /\ builder.steps # <<>>
           /\ Last(builder.steps) = TableAction(call.tool, call.options)

\* the options acc with the options opts merged in, opts winning on a key
MergeOptions(acc, opts) == {p \in acc : \A q \in opts : q[1] # p[1]} \cup opts

RECURSIVE MergedOptions(_)
\* the output options a sequence of set_output_options calls leaves
MergedOptions(calls) ==
    IF calls = <<>> THEN {} ELSE MergeOptions(MergedOptions(Front(calls)), Last(calls))

\* C21: each set_output_options call returns the builder and leaves the
\* accumulated actions as they were, and after it the accumulated output
\* options map every key to the value of the latest call that set it,
\* keeping the keys only earlier calls set.
C21_OutputOptionsLastWins ==
    [][(call'.op = "set_output_options" /\ call' # call)
          => /\ result' = Return("builder")
             /\ builder'.output_options = MergedOptions(option_calls')
             /\ builder'.steps = builder.steps]_vars

\* C22: the instruction document a builder assembles has the parts
\* [{file: "file"}] and the accumulated actions, and has the output key
\* exactly when an output option has been set, holding the accumulated
\* output options.
C22_InstructionsAssembled ==
    (call.op = "_build_instructions" /\ pc = "done")
        => /\ result = Return("instructions")
           /\ request.parts = <<FilePart("file")>>
           /\ request.actions = builder.steps
           /\ request.output.present <=> (builder.output_options # {})
           /\ request.output.present => request.output.options = builder.output_options

\* C23: one execute call of a builder issues exactly one post, to /build,
\* with the field of the builder's input file and the instruction document
\* holding the actions in the order they were added; execute leaves the
\* accumulated actions and output options as they were.
C23_ExecutePostsOnce ==
    /\ []((call.op = "execute" /\ pc = "done" /\ Readable(call.input_file))
            => /\ posts = 1
               /\ request.endpoint = "/build"
               /\ Len(request.files) = 1
               /\ Carries(request.files[1], builder.input_file)
               /\ request.parts = <<FilePart("file")>>
               /\ request.actions = builder.steps)
    /\ [][call'.op = "execute"
            => /\ builder'.steps = builder.steps
               /\ builder'.output_options = builder.output_options]_vars

\* C24: the credential of a client is the api_key it was constructed with
\* when one was given, and otherwise the value NUTRIENT_API_KEY had at
\* construction; it is what the session sends from then on, and a later
\* change of the environment variable changes neither.
C24_CredentialResolvedOnce ==
    /\ [](/\ constructed.api_key \notin {None, ""} => session_key = constructed.api_key
          /\ constructed.api_key \in {None, ""} => session_key = constructed.environ
          /\ api_key = session_key)
    /\ [][environ' # environ => session_key' = session_key /\ api_key' = api_key]_vars

\* a client constructed without api_key while the variable held "env-key"
\* has sent a request with that key after the variable was changed
C24_Witness ==
    /\ constructed = [api_key |-> None, environ |-> "env-key"]
    /\ environ = "other-key"
    /\ session_key = "env-key"
    /\ call.op = "post"
    /\ attempts = 1
    /\ pc = "done"
    /\ result = Return(BodyA)

\* the number of page ranges split_pdf processes
RangesProcessed(c) == IF c.page_ranges.items = <<>> THEN 1 ELSE Len(c.page_ranges.items)

\* C25: split_pdf given output_paths whose length differs from the number
\* of page ranges processed, the single default range of an omitted
\* page_ranges included, raises ValueError before any request; when it
\* returns normally with output_paths, every path was written and every
\* processed range has its file.
C25_SplitLengthsMatch ==
    (/\ call.op = "split_pdf"
     /\ call.output_paths.items # <<>>
     /\ Readable(call.input_file))
        => /\ Len(call.output_paths.items) # RangesProcessed(call)
                 => /\ pc = "done"
                    /\ result = Raise("ValueError")
                    /\ posts = 0
           /\ (pc = "done" /\ result.kind = "return")
                 => /\ Len(written) = Len(call.output_paths.items)
                    /\ Len(written) = RangesProcessed(call)

\* a page of an output document: a blank page, or page p of the input
Blank == [blank |-> TRUE, page |-> 0]

Original(p) == [blank |-> FALSE, page |-> p]

Originals(pages) == [k \in 1..Len(pages) |-> Original(pages[k])]

\* the pages a part of an n-page document puts into the output, a new-page
\* part giving its blank pages
LayoutOfPart(part, n) ==
    IF part.kind = "new"
      THEN [i \in 1..part.pageCount |-> Blank]
      ELSE Originals(PartPages(part, n))

RECURSIVE Layout(_, _)
Layout(parts, n) ==
    IF parts = <<>> THEN <<>> ELSE LayoutOfPart(Head(parts), n) \o Layout(Tail(parts), n)

\* an n-page document with count blank pages put before page i, or after
\* the last page when i = -1
InsertedAt(i, count, n) ==
    LET at == IF i = -1 THEN n ELSE Smaller(i, n)
    IN  Originals(Interval(0, at)) \o [k \in 1..count |-> Blank]
            \o Originals(Interval(at, n))

\* C26: add_page with the position index i puts the page_count blank pages
\* before the first page for i = 0, directly before page i for i > 0 and
\* after the last page for i = -1, every original page appearing once and
\* in order; an index below -1 raises ValueError before any request.
C26_AddPageAtAnyPosition ==
    (/\ call.op = "add_page"
     /\ call.page_count >= 1
     /\ call.after_page_index # <<>>
     /\ Readable(call.input_file))
        => IF call.after_page_index[1] < -1
             THEN pc = "done" /\ result = Raise("ValueError") /\ posts = 0
             ELSE /\ posts = 1
                  /\ \A n \in 1..MaxPages :
                        Layout(request.parts, n)
                            = InsertedAt(call.after_page_index[1], call.page_count, n)

\* C27: the page ranges of the direct methods read `end` one way: with
\* `end` exclusive, as split_pdf documents it and delete_pdf_pages and
\* add_page use it, the parts of duplicate_pdf_pages select exactly the
\* requested pages, each part its single page.
C27_OneEndConvention ==
    (/\ call.op = "duplicate_pdf_pages"
     /\ call.page_indexes # <<>>
     /\ \A i \in 1..Len(call.page_indexes) : call.page_indexes[i] >= 0
     /\ Readable(call.input_file))
        => /\ posts = 1
           /\ \A n \in (MaxPageIndex + 1)..MaxPages :
                 /\ SelectedPages(request.parts, n) = call.page_indexes
                 /\ \A i \in 1..Len(request.parts) :
                       PartPages(request.parts[i], n) = <<call.page_indexes[i]>>

\* C29: when split_pdf was given output_paths and the request of a page
\* range failed, no output file of an earlier range has been written.
C29_SplitAllOrNothing ==
    (/\ call.op = "split_pdf"
     /\ call.output_paths.items # <<>>
     /\ pc = "done"
     /\ result.kind = "raise")
        => written = <<>>

\* C30: an operation that raised for a local reason, without sending a
\* request, has left no file handle open that its prepare_file_for_upload
\* calls had opened.
C30_NoHandleLeftOnLocalRaise ==
    (/\ call.op \in {"delete_pdf_pages", "merge_pdfs"}
     /\ pc = "done"
     /\ posts = 0
     /\ result.kind = "raise")
        => open_handles = 0

\* the whole content of a file input
FullContent(f) == IF f.kind = "path" THEN FileContent(f.ref) ELSE f.ref

\* C28: every request split_pdf sends for a page range uploads the complete
\* content of the input file, whether it is a path, bytes or an open
\* stream; a stream is not left at its end by the request of an earlier
\* range.
C28_SplitUploadsComplete ==
    (/\ call.op = "split_pdf"
     /\ pc \in {"posting", "posted"}
     /\ ~KeyMissing(api_key))
        => /\ Len(request.uploads) = 1
           /\ request.uploads[1] = FullContent(call.input_file)

====
